---- MODULE Spec2Model ----
(***************************************************************************)
(* A model of llimcobe.Llimcobe (src/llimcobe/llimcobe.py): the model      *)
(* registry (set_model, get_model, del_model) and the benchmark loop.      *)
(*                                                                         *)
(* Python values are strings: None is "None", the booleans a registry      *)
(* operation returns are "True" and "False", a hook (a callable) is the    *)
(* name of the callable, a model name is the string itself.                *)
(* Numbers the code computes with float division are kept as exact         *)
(* fractions <<numerator, denominator>> in lowest terms.                   *)
(***************************************************************************)
EXTENDS Integers, Sequences, FiniteSets, TLC

VARIABLES
    models,      \* self.models, in insertion order: a sequence of entries
    dataset,     \* self.dataset: the raw images, each a shape <<H, W, C>>
    lens,        \* self.lens
    temp,        \* the file at self.temp: NoFile or the artifact stored there
    ret,         \* the last call of a method and what it returned
    registered,  \* history: the arguments of the latest accepted set_model of
                 \* each name on which del_model was not called since
    pc,          \* where benchmark() stands; "idle" outside a call
    num_images,  \* benchmark's argument
    name_ix,     \* the position of `name` in the loops over self.models
    img_ix,      \* the position of the zip over (dataset, self.lens, range)
    lossy_flag,
    bpsp, compression_throughput, decompression_throughput,
    all_bpsp, all_throughput, all_dthroughput,
    elapsed_time1, elapsed_time2, pixel_size,
    loaded_same, \* whether preprocess(loaded) is structurally equal to image
    printed,     \* the lines printed, in order
    error,       \* the exception benchmark() raised, None when none
    threads,     \* history: the display threads this run started that were
                 \* not joined and did not finish yet
    warned,      \* history: the warnings.warn calls of this run
    compared,    \* history: the compare calls of this run and their results
    written,     \* history: the artifacts the save hook wrote in this run
    seen         \* history: the dataset positions passed to preprocess

registryVars == <<models, ret, registered>>
harnessVars == <<dataset, lens, temp>>
localVars == <<num_images, name_ix, img_ix, lossy_flag, bpsp,
               compression_throughput, decompression_throughput, all_bpsp,
               all_throughput, all_dthroughput, elapsed_time1, elapsed_time2,
               pixel_size, loaded_same, printed, error>>
historyVars == <<warned, compared, written, seen>>
runVars == <<pc, localVars, threads, historyVars>>
vars == <<registryVars, harnessVars, runVars>>

----------------------------------------------------------------------------
(* Python values *)

PyNone == "None"
PyTrue == "True"
PyFalse == "False"

\* bool(v) of an argument: None and the empty string are false
Truthy(v) == v \notin {PyNone, ""}

\* the stored stand-in for `lambda x, y: x == y`
StructuralEq == "lambda_eq"

NoFile == [exists |-> FALSE, bytes |-> 0]

----------------------------------------------------------------------------
(* Inputs *)

MaxImages == 2

Shapes == {<<2, 2, 1>>}

NameArgs == {PyNone, "", "a", "b"}
ModelArgs == {PyNone, "m1"}
PreprocessArgs == {PyNone, "p1"}
SaveArgs == {PyNone, "s1"}
LoadArgs == {PyNone, "l1"}
CompareArgs == {PyNone, "c1"}

\* a second codec, with callables of its own
SecondCodec == <<"m2", "p2", "s2", "l2", "c2">>

RECURSIVE SeqsUpTo(_, _)
SeqsUpTo(S, n) ==
    IF n = 0 THEN {<<>>}
    ELSE LET shorter == SeqsUpTo(S, n - 1)
         IN shorter \cup {Append(s, x) : s \in {t \in shorter : Len(t) = n - 1}, x \in S}

----------------------------------------------------------------------------
(* The registry *)

Names(ms) == {ms[i].name : i \in 1..Len(ms)}

\* the position of key `name` in the dictionary, 0 when it is not a key
IndexOf(ms, name) ==
    IF name \in Names(ms) THEN CHOOSE i \in 1..Len(ms) : ms[i].name = name ELSE 0

\* as DictSet, but a present key keeps the hooks the new entry leaves out
DictMerge(ms, entry) ==
    IF entry.name \in Names(ms)
    THEN LET old == ms[IndexOf(ms, entry.name)]
         IN [ms EXCEPT ![IndexOf(ms, entry.name)] =
                [f \in DOMAIN entry |->
                    IF Truthy(entry[f]) /\ entry[f] # StructuralEq
                    THEN entry[f] ELSE old[f]]]
    ELSE Append(ms, entry)

\* self.models[name] = entry: a new key goes last, a present key keeps its place
DictSet(ms, entry) ==
    IF entry.name \in Names(ms)
    THEN [ms EXCEPT ![IndexOf(ms, entry.name)] = entry]
    ELSE Append(ms, entry)

\* del self.models[name]
DictDel(ms, name) ==
    LET k == IndexOf(ms, name)
    IN [i \in 1..(Len(ms) - 1) |-> IF i < k THEN ms[i] ELSE ms[i + 1]]

\* as set_model, but the test asks for `save` alone
set_model_no_load(ms, name, model, preprocess, save, load, compare) ==
    IF Truthy(name) /\ Truthy(save)
    THEN [models |-> DictSet(ms, [name |-> name, model |-> model,
                                  preprocess |-> preprocess, save |-> save,
                                  load |-> load,
                                  compare |-> IF Truthy(compare) THEN compare
                                              ELSE StructuralEq]),
          ret |-> PyTrue]
    ELSE [models |-> ms, ret |-> PyFalse]

set_model(ms, name, model, preprocess, save, load, compare) ==
    IF (Truthy(name) /\ Truthy(model) /\ Truthy(save) /\ Truthy(load))
       \/ (Truthy(name) /\ Truthy(save) /\ Truthy(load))
    THEN [models |-> DictSet(ms, [name |-> name, model |-> model,
                                  preprocess |-> preprocess, save |-> save,
                                  load |-> load,
                                  compare |-> IF Truthy(compare) THEN compare
                                              ELSE StructuralEq]),
          ret |-> PyTrue]
    ELSE [models |-> ms, ret |-> PyFalse]

\* as get_model, but without the fall back to `save`
get_model_no_fallback(ms, name) ==
    IF name \in Names(ms) THEN ms[IndexOf(ms, name)].model ELSE PyFalse

get_model(ms, name) ==
    IF name \in Names(ms)
    THEN IF Truthy(ms[IndexOf(ms, name)].model)
         THEN ms[IndexOf(ms, name)].model
         ELSE ms[IndexOf(ms, name)].save
    ELSE PyFalse

\* as del_model, but the oldest entry is the one removed
del_model_oldest(ms, name) ==
    IF name \in Names(ms)
    THEN [models |-> Tail(ms), ret |-> PyTrue]
    ELSE [models |-> ms, ret |-> PyFalse]

del_model(ms, name) ==
    IF name \in Names(ms)
    THEN [models |-> DictDel(ms, name), ret |-> PyTrue]
    ELSE [models |-> ms, ret |-> PyFalse]

\* what the caller passed, as the history keeps it
Call(name, model, preprocess, save, load, compare) ==
    [name |-> name, model |-> model, preprocess |-> preprocess, save |-> save,
     load |-> load, compare |-> compare]

SetModel(name, model, preprocess, save, load, compare) ==
    LET r == set_model(models, name, model, preprocess, save, load, compare)
    IN /\ pc = "idle"
       /\ models' = r.models
       /\ ret' = [op |-> "set_model", name |-> name, val |-> r.ret,
                  had |-> name \in Names(models)]
       /\ registered' =
              IF r.ret = PyTrue
              THEN {c \in registered : c.name # name}
                       \cup {Call(name, model, preprocess, save, load, compare)}
              ELSE registered
       /\ UNCHANGED <<harnessVars, runVars>>

GetModel(name) ==
    /\ pc = "idle"
    /\ ret' = [op |-> "get_model", name |-> name, val |-> get_model(models, name),
               had |-> name \in Names(models)]
    /\ UNCHANGED <<models, registered>>
    /\ UNCHANGED <<harnessVars, runVars>>

DelModel(name) ==
    LET r == del_model(models, name)
    IN /\ pc = "idle"
       /\ models' = r.models
       /\ ret' = [op |-> "del_model", name |-> name, val |-> r.ret,
                  had |-> name \in Names(models)]
       /\ registered' = {c \in registered : c.name # name}
       /\ UNCHANGED <<harnessVars, runVars>>

----------------------------------------------------------------------------
(* Exact fractions: what float(a / b) stands for *)

RECURSIVE GCD(_, _)
GCD(a, b) == IF b = 0 THEN a ELSE GCD(b, a % b)

\* n / d for n >= 0 and d > 0
Frac(n, d) == <<n \div GCD(n, d), d \div GCD(n, d)>>

FracAdd(x, y) == Frac(x[1] * y[2] + y[1] * x[2], x[2] * y[2])

FracLess(x, y) == x[1] * y[2] < y[1] * x[2]

\* sum(values), from the int 0
RECURSIVE sum(_)
sum(values) ==
    IF values = <<>> THEN <<0, 1>> ELSE FracAdd(sum(Tail(values)), Head(values))

\* sum(values) / len(values), for a list that is not empty
mean(values) == Frac(sum(values)[1], sum(values)[2] * Len(values))

\* list.sort()
sort(values) == SortSeq(values, FracLess)

----------------------------------------------------------------------------
(* Construction *)

\* numpy.size of an H x W x C array
np_size(image) == image[1] * image[2] * image[3]

\* Llimcobe.__init__, given what prepare_dataset returns and the file a former
\* process may have left at self.temp
init(prepared, stale) ==
    [models |-> <<>>,
     dataset |-> prepared,
     lens |-> [i \in 1..Len(prepared) |-> np_size(prepared[i])],
     temp |-> IF stale.exists THEN NoFile ELSE stale]

\* the locals of benchmark() outside a call
NoRun ==
    /\ num_images = 0
    /\ name_ix = 0
    /\ img_ix = 0
    /\ lossy_flag = FALSE
    /\ bpsp = <<>>
    /\ compression_throughput = <<>>
    /\ decompression_throughput = <<>>
    /\ all_bpsp = <<>>
    /\ all_throughput = <<>>
    /\ all_dthroughput = <<>>
    /\ elapsed_time1 = 0
    /\ elapsed_time2 = 0
    /\ pixel_size = 0
    /\ loaded_same = TRUE
    /\ printed = <<>>
    /\ error = PyNone
    /\ warned = <<>>
    /\ compared = <<>>
    /\ written = <<>>
    /\ seen = {}

Construct(datasets) ==
    \E prepared \in datasets, stale \in {NoFile, [exists |-> TRUE, bytes |-> 1]} :
        LET self == init(prepared, stale)
        IN /\ models = self.models
           /\ dataset = self.dataset
           /\ lens = self.lens
           /\ temp = self.temp
           /\ ret = [op |-> "__init__", name |-> PyNone, val |-> PyNone, had |-> FALSE]
           /\ registered = {}
           /\ pc = "idle"
           /\ threads = {}
           /\ NoRun

Init == Construct(SeqsUpTo(Shapes, MaxImages))

----------------------------------------------------------------------------
(* benchmark(num_images), a step at a time *)

MaxNumImages == 2
MaxTicks == 2
MaxBytes == 2

\* time.perf_counter() counts seconds; the model's clock counts microseconds
TicksPerSecond == 10 ^ 6

Min(a, b) == IF a < b THEN a ELSE b

\* as zip_len, but without range(num_images)
zip_len_no_range(n_dataset, n_lens, n) == Min(n_dataset, n_lens)

\* how many triples zip(dataset, self.lens, range(num_images)) yields
zip_len(n_dataset, n_lens, n) ==
    Min(Min(n_dataset, n_lens), IF n < 0 THEN 0 ELSE n)

Raise(e) == pc' = "raised" /\ error' = e

\* lines 93-97
Benchmark(n) ==
    /\ pc = "idle"
    /\ pc' = "for_name"
    /\ num_images' = n
    /\ name_ix' = 1
    /\ all_bpsp' = <<>>
    /\ all_throughput' = <<>>
    /\ all_dthroughput' = <<>>
    /\ lossy_flag' = FALSE
    /\ ret' = [op |-> "benchmark", name |-> PyNone, val |-> PyNone, had |-> FALSE]
    /\ UNCHANGED <<models, registered, harnessVars, threads, historyVars>>
    /\ UNCHANGED <<img_ix, bpsp, compression_throughput, decompression_throughput,
                   elapsed_time1, elapsed_time2, pixel_size, loaded_same, printed,
                   error>>

\* line 100, list(map(preprocess, self.dataset)): the positions of the dataset
\* passed to the hook and the error raised, the hook failing on image fail_at
\* (0: on none). map(None, ...) fails on its first item, and on none when there
\* is no item.
preprocess_all(preprocess, n_dataset, fail_at) ==
    IF ~Truthy(preprocess)
    THEN [seen |-> {}, error |-> IF n_dataset = 0 THEN PyNone ELSE "TypeError"]
    ELSE IF fail_at = 0
         THEN [seen |-> 1..n_dataset, error |-> PyNone]
         ELSE [seen |-> 1..fail_at, error |-> preprocess]

\* lines 99-103: the head of the loop over self.models
ForName(fail_at) ==
    /\ pc = "for_name"
    /\ IF name_ix > Len(models)
       THEN /\ fail_at = 0
            /\ pc' = "report"
            /\ name_ix' = 1
            /\ UNCHANGED <<seen, error, img_ix, bpsp, compression_throughput,
                           decompression_throughput>>
       ELSE LET r == preprocess_all(models[name_ix].preprocess, Len(dataset), fail_at)
            IN /\ fail_at \in 0..Len(dataset)
               /\ fail_at > 0 => Truthy(models[name_ix].preprocess)
               /\ seen' = seen \cup r.seen
               /\ IF r.error = PyNone
                  THEN /\ pc' = "for_image"
                       /\ img_ix' = 1
                       /\ bpsp' = <<>>
                       /\ compression_throughput' = <<>>
                       /\ decompression_throughput' = <<>>
                       /\ UNCHANGED error
                  ELSE /\ Raise(r.error)
                       /\ UNCHANGED <<img_ix, bpsp, compression_throughput,
                                      decompression_throughput>>
               /\ UNCHANGED name_ix
    /\ UNCHANGED <<registryVars, harnessVars, threads, warned, compared, written>>
    /\ UNCHANGED <<num_images, lossy_flag, all_bpsp, all_throughput, all_dthroughput,
                   elapsed_time1, elapsed_time2, pixel_size, loaded_same, printed>>

\* all_bpsp[name] = bpsp
DictPut(d, name, value) ==
    [n \in DOMAIN d \cup {name} |-> IF n = name THEN value ELSE d[n]]

\* line 104: the head of the loop over the images; lines 140-142 at its end
ForImage ==
    /\ pc = "for_image"
    /\ IF img_ix <= zip_len(Len(dataset), Len(lens), num_images)
       THEN /\ pc' = "compress"
            /\ UNCHANGED <<name_ix, all_bpsp, all_throughput, all_dthroughput>>
       ELSE /\ all_bpsp' = DictPut(all_bpsp, models[name_ix].name, bpsp)
            /\ all_throughput' =
                   DictPut(all_throughput, models[name_ix].name, compression_throughput)
            /\ all_dthroughput' =
                   DictPut(all_dthroughput, models[name_ix].name,
                           decompression_throughput)
            /\ name_ix' = name_ix + 1
            /\ pc' = "for_name"
    /\ UNCHANGED <<registryVars, harnessVars, threads, historyVars>>
    /\ UNCHANGED <<num_images, img_ix, lossy_flag, bpsp, compression_throughput,
                   decompression_throughput, elapsed_time1, elapsed_time2, pixel_size,
                   loaded_same, printed, error>>

CompressOutcomes == {"ok", "model_raises", "save_raises", "save_raises_after_write"}

\* as compress, but what a hook raises is caught and the artifact written
compress_caught(entry, file, size, outcome) ==
    [temp |-> [exists |-> TRUE, bytes |-> size], wrote |-> TRUE, error |-> PyNone]

\* lines 106-110: the file at self.temp and the error raised, the save hook
\* writing `size` bytes; a hook that raises, raises its own error
compress(entry, file, size, outcome) ==
    LET artifact == [exists |-> TRUE, bytes |-> size]
    IN IF Truthy(entry.model) /\ outcome = "model_raises"
       THEN [temp |-> file, wrote |-> FALSE, error |-> entry.model]
       ELSE CASE outcome = "save_raises" ->
                     [temp |-> file, wrote |-> FALSE, error |-> entry.save]
              [] outcome = "save_raises_after_write" ->
                     [temp |-> artifact, wrote |-> TRUE, error |-> entry.save]
              [] OTHER -> [temp |-> artifact, wrote |-> TRUE, error |-> PyNone]

\* lines 105-111: the compression phase, taking t ticks
Compress(t, size, outcome) ==
    /\ pc = "compress"
    /\ outcome = "model_raises" => Truthy(models[name_ix].model)
    /\ LET r == compress(models[name_ix], temp, size, outcome)
       IN /\ temp' = r.temp
          /\ written' = IF r.wrote
                        THEN Append(written, [name |-> models[name_ix].name,
                                              image |-> img_ix, bytes |-> size])
                        ELSE written
          /\ IF r.error = PyNone
             THEN /\ pc' = "decompress"
                  /\ elapsed_time1' = t
                  /\ UNCHANGED error
             ELSE /\ Raise(r.error)
                  /\ UNCHANGED elapsed_time1
    /\ UNCHANGED <<registryVars, dataset, lens, threads, warned, compared, seen>>
    /\ UNCHANGED <<num_images, name_ix, img_ix, lossy_flag, bpsp,
                   compression_throughput, decompression_throughput, all_bpsp,
                   all_throughput, all_dthroughput, elapsed_time2, pixel_size,
                   loaded_same, printed>>

DecompressOutcomes == {"ok", "load_raises", "preprocess_raises"}

\* lines 113-117: the decompression phase, taking t ticks; the array loaded has
\* elements of `itemsize` bytes, and preprocessed it is equal to image or not
Decompress(t, itemsize, same, outcome) ==
    /\ pc = "decompress"
    /\ CASE outcome = "load_raises" ->
                /\ Raise(models[name_ix].load)
                /\ UNCHANGED <<elapsed_time2, pixel_size, loaded_same>>
         [] outcome = "preprocess_raises" ->
                /\ Raise(models[name_ix].preprocess)
                /\ elapsed_time2' = t
                /\ pixel_size' = itemsize * 8
                /\ UNCHANGED loaded_same
         [] OTHER ->
                /\ pc' = "compare"
                /\ elapsed_time2' = t
                /\ pixel_size' = itemsize * 8
                /\ loaded_same' = same
                /\ UNCHANGED error
    /\ UNCHANGED <<registryVars, harnessVars, threads, historyVars>>
    /\ UNCHANGED <<num_images, name_ix, img_ix, lossy_flag, bpsp,
                   compression_throughput, decompression_throughput, all_bpsp,
                   all_throughput, all_dthroughput, elapsed_time1, printed>>

\* as fidelity, but the test is `not compare(...) or lossy_flag is False`
fidelity_or(equal, flag) == [warn |-> TRUE, lossy_flag |-> TRUE]

\* as fidelity, but lossy_flag is not read
fidelity_every_mismatch(equal, flag) ==
    IF ~equal
    THEN [warn |-> TRUE, lossy_flag |-> TRUE]
    ELSE [warn |-> FALSE, lossy_flag |-> flag]

\* as fidelity, but an image that compares equal clears lossy_flag
fidelity_reset(equal, flag) ==
    IF equal
    THEN [warn |-> FALSE, lossy_flag |-> FALSE]
    ELSE [warn |-> flag = FALSE, lossy_flag |-> TRUE]

\* lines 118-132: whether the warning is given, and lossy_flag afterwards
fidelity(equal, flag) ==
    IF ~equal /\ flag = FALSE
    THEN [warn |-> TRUE, lossy_flag |-> TRUE]
    ELSE [warn |-> FALSE, lossy_flag |-> flag]

DisplayOutcomes == {"shown", "show_raises", "t1_fails", "t2_fails"}

\* lines 121-131: the display threads left running when the try statement ends.
\* An error of show() ends its thread and join returns; t1 failing to be made
\* or started leaves no thread; t2 failing leaves t1 started and not joined.
display(outcome) == IF outcome = "t2_fails" THEN {"t1"} ELSE {}

\* as try_display, but without the except clause: the error of making or
\* starting a thread leaves the try statement
try_display_no_except(outcome) ==
    IF outcome \in {"t1_fails", "t2_fails"} THEN "RuntimeError" ELSE PyNone

\* lines 121-131: the error that leaves the try statement. The bare except
\* clause takes every error raised in it; an error of show() is raised in the
\* display thread and not in benchmark().
try_display(outcome) == PyNone

CompareOutcomes == {"equal", "differ", "raises"}

\* lines 118-132
Compare(outcome, shown) ==
    /\ pc = "compare"
    /\ models[name_ix].compare = StructuralEq
           => outcome = IF loaded_same THEN "equal" ELSE "differ"
    /\ IF outcome = "raises"
       THEN /\ shown = "none"
            /\ Raise(models[name_ix].compare)
            /\ UNCHANGED <<lossy_flag, warned, compared, threads>>
       ELSE LET r == fidelity(outcome = "equal", lossy_flag)
                escaped == IF r.warn THEN try_display(shown) ELSE PyNone
            IN /\ shown = "none" <=> ~r.warn
               /\ warned' = IF r.warn
                            THEN Append(warned, [name |-> models[name_ix].name,
                                                 image |-> img_ix, shown |-> shown])
                            ELSE warned
               /\ threads' = IF r.warn THEN threads \cup display(shown) ELSE threads
               /\ compared' = Append(compared, [name |-> models[name_ix].name,
                                                image |-> img_ix,
                                                equal |-> outcome = "equal"])
               /\ IF escaped = PyNone
                  THEN /\ lossy_flag' = r.lossy_flag
                       /\ pc' = "measure"
                       /\ UNCHANGED error
                  ELSE /\ Raise(escaped)
                       /\ UNCHANGED lossy_flag
    /\ UNCHANGED <<registryVars, harnessVars, written, seen>>
    /\ UNCHANGED <<num_images, name_ix, img_ix, bpsp, compression_throughput,
                   decompression_throughput, all_bpsp, all_throughput,
                   all_dthroughput, elapsed_time1, elapsed_time2, pixel_size,
                   loaded_same, printed>>

\* as bits_per_subpixel, but of the size in bytes
bytes_per_subpixel(image_size, length) == Frac(image_size \div 8, length)

\* line 136: float(image_size / length)
bits_per_subpixel(image_size, length) == Frac(image_size, length)

\* as throughput, but in megabits: the division by 8 is left out
throughput_megabits(length, pixel_bits, ticks) ==
    Frac(length * pixel_bits * TicksPerSecond, 10 ^ 6 * ticks)

\* lines 137-138: float((length * pixel_size / (8 * 10 ** 6)) / elapsed_time),
\* elapsed_time being `ticks` microseconds
throughput(length, pixel_bits, ticks) ==
    Frac(length * pixel_bits * TicksPerSecond, 8 * 10 ^ 6 * ticks)

\* lines 134-138
Measure ==
    /\ pc = "measure"
    /\ IF ~temp.exists
       THEN /\ Raise("FileNotFoundError")
            /\ UNCHANGED <<temp, img_ix, bpsp, compression_throughput,
                           decompression_throughput>>
       ELSE /\ temp' = NoFile
            /\ IF lens[img_ix] = 0
               THEN /\ Raise("ZeroDivisionError")
                    /\ UNCHANGED <<img_ix, bpsp, compression_throughput,
                                   decompression_throughput>>
               ELSE /\ bpsp' = Append(bpsp, bits_per_subpixel(temp.bytes * 8,
                                                              lens[img_ix]))
                    /\ IF elapsed_time1 = 0 \/ elapsed_time2 = 0
                       THEN /\ Raise("ZeroDivisionError")
                            /\ compression_throughput' =
                                   IF elapsed_time1 = 0 THEN compression_throughput
                                   ELSE Append(compression_throughput,
                                               throughput(lens[img_ix], pixel_size,
                                                          elapsed_time1))
                            /\ UNCHANGED <<img_ix, decompression_throughput>>
                       ELSE /\ compression_throughput' =
                                   Append(compression_throughput,
                                          throughput(lens[img_ix], pixel_size,
                                                     elapsed_time1))
                            /\ decompression_throughput' =
                                   Append(decompression_throughput,
                                          throughput(lens[img_ix], pixel_size,
                                                     elapsed_time2))
                            /\ img_ix' = img_ix + 1
                            /\ pc' = "for_image"
                            /\ UNCHANGED error
    /\ UNCHANGED <<registryVars, dataset, lens, threads, historyVars>>
    /\ UNCHANGED <<num_images, name_ix, lossy_flag, all_bpsp, all_throughput,
                   all_dthroughput, elapsed_time1, elapsed_time2, pixel_size,
                   loaded_same, printed>>

\* as summary, but a list with no value has the mean 0
summary_default(name, rates, cs, ds) ==
    [printed |-> <<[name |-> name, what |-> "compression rate",
                    value |-> IF Len(rates) = 0 THEN <<0, 1>> ELSE mean(rates)],
                   [name |-> name, what |-> "compression throughput",
                    value |-> IF Len(cs) = 0 THEN <<0, 1>> ELSE mean(cs)],
                   [name |-> name, what |-> "decompression throughput",
                    value |-> IF Len(ds) = 0 THEN <<0, 1>> ELSE mean(ds)]>>,
     error |-> PyNone]

\* lines 145-149 for one name: the lines printed and the error raised. A line's
\* argument is computed before the line is printed.
summary(name, rates, cs, ds) ==
    IF Len(rates) = 0
    THEN [printed |-> <<>>, error |-> "ZeroDivisionError"]
    ELSE LET l1 == <<[name |-> name, what |-> "compression rate",
                      value |-> mean(rates)]>>
         IN IF Len(cs) = 0
            THEN [printed |-> l1, error |-> "ZeroDivisionError"]
            ELSE LET l2 == Append(l1, [name |-> name,
                                       what |-> "compression throughput",
                                       value |-> mean(cs)])
                 IN IF Len(ds) = 0
                    THEN [printed |-> l2, error |-> "ZeroDivisionError"]
                    ELSE [printed |-> Append(l2, [name |-> name,
                                                  what |-> "decompression throughput",
                                                  value |-> mean(ds)]),
                          error |-> PyNone]

\* lines 144-149: one turn of the loop that prints the means
Report ==
    /\ pc = "report"
    /\ IF name_ix > Len(models)
       THEN /\ pc' = "plot"
            /\ UNCHANGED <<name_ix, printed, error>>
       ELSE LET name == models[name_ix].name
                r == summary(name, all_bpsp[name], all_throughput[name],
                             all_dthroughput[name])
            IN /\ printed' = printed \o r.printed
               /\ IF r.error = PyNone
                  THEN /\ name_ix' = name_ix + 1
                       /\ UNCHANGED <<pc, error>>
                  ELSE /\ Raise(r.error)
                       /\ UNCHANGED name_ix
    /\ UNCHANGED <<registryVars, harnessVars, threads, historyVars>>
    /\ UNCHANGED <<num_images, img_ix, lossy_flag, bpsp, compression_throughput,
                   decompression_throughput, all_bpsp, all_throughput,
                   all_dthroughput, elapsed_time1, elapsed_time2, pixel_size,
                   loaded_same>>

\* lines 152-194: the lists are sorted in place and handed to the plots
Plot ==
    /\ pc = "plot"
    /\ all_bpsp' = [n \in DOMAIN all_bpsp |-> sort(all_bpsp[n])]
    /\ all_throughput' = [n \in DOMAIN all_throughput |-> sort(all_throughput[n])]
    /\ all_dthroughput' = [n \in DOMAIN all_dthroughput |-> sort(all_dthroughput[n])]
    /\ pc' = "returned"
    /\ UNCHANGED <<registryVars, harnessVars, threads, historyVars>>
    /\ UNCHANGED <<num_images, name_ix, img_ix, lossy_flag, bpsp,
                   compression_throughput, decompression_throughput, elapsed_time1,
                   elapsed_time2, pixel_size, loaded_same, printed, error>>

\* as Return, but benchmark() leaves the registry empty
Return_clears ==
    /\ pc \in {"returned", "raised"}
    /\ pc' = "idle"
    /\ models' = <<>>
    /\ num_images' = 0 /\ name_ix' = 0 /\ img_ix' = 0
    /\ lossy_flag' = FALSE /\ loaded_same' = TRUE
    /\ bpsp' = <<>>
    /\ compression_throughput' = <<>> /\ decompression_throughput' = <<>>
    /\ all_bpsp' = <<>> /\ all_throughput' = <<>> /\ all_dthroughput' = <<>>
    /\ elapsed_time1' = 0 /\ elapsed_time2' = 0 /\ pixel_size' = 0
    /\ printed' = <<>> /\ error' = PyNone
    /\ warned' = <<>> /\ compared' = <<>> /\ written' = <<>> /\ seen' = {}
    /\ threads' = {}
    /\ UNCHANGED <<ret, registered, harnessVars>>

\* benchmark() returns, or its error reaches the caller: its locals are gone
Return ==
    /\ pc \in {"returned", "raised"}
    /\ pc' = "idle"
    /\ num_images' = 0
    /\ name_ix' = 0
    /\ img_ix' = 0
    /\ lossy_flag' = FALSE
    /\ bpsp' = <<>>
    /\ compression_throughput' = <<>>
    /\ decompression_throughput' = <<>>
    /\ all_bpsp' = <<>>
    /\ all_throughput' = <<>>
    /\ all_dthroughput' = <<>>
    /\ elapsed_time1' = 0
    /\ elapsed_time2' = 0
    /\ pixel_size' = 0
    /\ loaded_same' = TRUE
    /\ printed' = <<>>
    /\ error' = PyNone
    /\ warned' = <<>>
    /\ compared' = <<>>
    /\ written' = <<>>
    /\ seen' = {}
    /\ threads' = {}
    /\ UNCHANGED <<registryVars, harnessVars>>

\* a display thread that was not joined comes to its end
ThreadExit ==
    /\ threads # {}
    /\ \E t \in threads : threads' = threads \ {t}
    /\ UNCHANGED <<registryVars, harnessVars, pc, localVars, historyVars>>

----------------------------------------------------------------------------
(* Specifications *)

NumImagesArgs == -1..MaxNumImages
Ticks == 1..MaxTicks
Sizes == 0..MaxBytes
Itemsizes == {1, 2}

\* the codecs registered before a run: one with every hook, an auto-saving one
\* that leaves compare out, one without preprocess, and two that lack a hook
\* set_model asks for
Codecs ==
    {<<"m1", "p1", "s1", "l1", "c1">>,
     <<PyNone, "p1", "s1", "l1", PyNone>>,
     <<"m1", PyNone, "s1", "l1", "c1">>,
     <<"m1", "p1", PyNone, "l1", "c1">>,
     <<"m1", "p1", "s1", PyNone, "c1">>}

Registry ==
    \/ \E name \in NameArgs, codec \in Codecs :
           SetModel(name, codec[1], codec[2], codec[3], codec[4], codec[5])
    \/ \E name \in NameArgs : GetModel(name)
    \/ \E name \in NameArgs : DelModel(name)

RegistryWide ==
    \/ \E name \in NameArgs, model \in ModelArgs, preprocess \in PreprocessArgs,
          save \in SaveArgs, load \in LoadArgs, compare \in CompareArgs :
           SetModel(name, model, preprocess, save, load, compare)
    \/ \E name \in NameArgs :
           SetModel(name, SecondCodec[1], SecondCodec[2], SecondCodec[3],
                    SecondCodec[4], SecondCodec[5])
    \/ \E name \in NameArgs : GetModel(name)
    \/ \E name \in NameArgs : DelModel(name)

\* the run with one clock reading, one artifact size, one element width
Run ==
    \/ \E n \in NumImagesArgs : Benchmark(n)
    \/ \E fail_at \in 0..MaxImages : ForName(fail_at)
    \/ ForImage
    \/ \E outcome \in CompressOutcomes : Compress(1, 2, outcome)
    \/ \E same \in BOOLEAN, outcome \in DecompressOutcomes :
           Decompress(1, 1, same, outcome)
    \/ \E outcome \in CompareOutcomes, shown \in DisplayOutcomes \cup {"none"} :
           Compare(outcome, shown)
    \/ Measure
    \/ Report
    \/ Plot
    \/ Return
    \/ ThreadExit

Next == Registry \/ Run

\* the run of one codec whose hooks do not raise, with the clock readings,
\* artifact sizes and element widths varied, over images of two sizes
MetricShapes == <<<<2, 2, 1>>, <<1, 2, 3>>>>
MetricDatasets == {<<MetricShapes[1], MetricShapes[2]>>, <<MetricShapes[2]>>}
MetricCodecs ==
    {<<"m1", "p1", "s1", "l1", "c1">>, <<PyNone, "p1", "s1", "l1", PyNone>>}

RegistryMetrics ==
    \E codec \in MetricCodecs :
        SetModel("a", codec[1], codec[2], codec[3], codec[4], codec[5])

RunMetrics ==
    \/ \E n \in NumImagesArgs : Benchmark(n)
    \/ ForName(0)
    \/ ForImage
    \/ \E t \in Ticks, size \in Sizes : Compress(t, size, "ok")
    \/ \E t \in Ticks, itemsize \in Itemsizes, same \in BOOLEAN :
           Decompress(t, itemsize, same, "ok")
    \/ \E outcome \in {"equal", "differ"}, shown \in {"shown", "none"} :
           Compare(outcome, shown)
    \/ Measure
    \/ Report
    \/ Plot
    \/ Return

NextMetrics == RegistryMetrics \/ RunMetrics

Spec == Init /\ [][Next]_vars

SpecRegistry == Construct({<<>>}) /\ [][RegistryWide]_vars

SpecMetrics == Construct(MetricDatasets) /\ [][NextMetrics]_vars

----------------------------------------------------------------------------
(* The registry's contract *)

\* the calls of set_model that RegistryWide makes: <<name, model, preprocess,
\* save, load, compare>>
SetModelCalls ==
    {<<name>> \o codec :
        name \in NameArgs,
        codec \in (ModelArgs \X PreprocessArgs \X SaveArgs \X LoadArgs \X CompareArgs)
                      \cup {SecondCodec}}

\* those that lack a name, a save hook or a load hook
LackingCalls ==
    {c \in SetModelCalls : ~(Truthy(c[1]) /\ Truthy(c[4]) /\ Truthy(c[5]))}

IsSetModel(c) == SetModel(c[1], c[2], c[3], c[4], c[5], c[6])

Registered(name) == {c \in registered : c.name = name}

\* C1: get_model(name) returns the `model` hook of the latest accepted
\* set_model of that name when that hook is present and its `save` hook when
\* it is not, and False for a name with no registration in force.
C1_GetAfterSet ==
    ret.op = "get_model" =>
        IF Registered(ret.name) = {}
        THEN ret.val = PyFalse
        ELSE \A c \in Registered(ret.name) :
                 ret.val = IF Truthy(c.model) THEN c.model ELSE c.save

\* get_model has returned the save hook of an auto-saving registration
C1_Witness ==
    /\ ret.op = "get_model"
    /\ \E c \in Registered(ret.name) : ~Truthy(c.model) /\ ret.val = c.save

\* C2: a set_model call whose name, save or load is absent or empty returns
\* False and leaves the registry as it was, whatever its other arguments;
\* nothing is raised.
C2_RejectLeavesRegistry ==
    [][\/ /\ ret'.val = PyFalse
          /\ models' = models
          /\ pc' = "idle"
          /\ error' = PyNone
       \/ \A c \in LackingCalls :
              ~(pc = "idle" /\ ret'.name = c[1] /\ IsSetModel(c))]_vars

\* a call with a name was rejected while the registry held an entry
C2_Witness ==
    /\ ret.op = "set_model"
    /\ ret.val = PyFalse
    /\ Truthy(ret.name)
    /\ models # <<>>

\* C3: del_model(name) returns True and removes the entry of `name` and no
\* other when there is one, and returns False and changes nothing when there
\* is none; get_model of a name returns False from a del_model of it until it
\* is registered again.
C3_DelModel ==
    /\ [][\A name \in NameArgs :
            DelModel(name) =>
                IF name \in Names(models)
                THEN /\ ret'.val = PyTrue
                     /\ Names(models') = Names(models) \ {name}
                     /\ Len(models') = Len(models) - 1
                     /\ \A n \in Names(models') :
                            models'[IndexOf(models', n)] = models[IndexOf(models, n)]
                ELSE /\ ret'.val = PyFalse
                     /\ models' = models]_vars
    /\ []((ret.op = "get_model" /\ Registered(ret.name) = {}) => ret.val = PyFalse)

\* del_model has removed an entry and another one is left
C3_Witness ==
    /\ ret.op = "del_model"
    /\ ret.val = PyTrue
    /\ models # <<>>

\* C4: an accepted set_model of a registered name leaves one entry of that
\* name, whose five hooks are those of the call (structural equality for a
\* compare left out), and leaves the other entries as they were.
C4_OverwriteReplaces ==
    [][\A c \in SetModelCalls \ LackingCalls :
          (pc = "idle" /\ c[1] \in Names(models) /\ ret'.name = c[1]
                /\ ret'.val = PyTrue /\ IsSetModel(c))
              => /\ Cardinality({i \in 1..Len(models') : models'[i].name = c[1]}) = 1
                 /\ models'[IndexOf(models', c[1])] =
                        [name |-> c[1], model |-> c[2], preprocess |-> c[3],
                         save |-> c[4], load |-> c[5],
                         compare |-> IF c[6] = PyNone THEN StructuralEq ELSE c[6]]
                 /\ Len(models') = Len(models)
                 /\ \A n \in Names(models) \ {c[1]} :
                        models'[IndexOf(models', n)] = models[IndexOf(models, n)]]_vars

\* a call that leaves model, preprocess and compare out has replaced an entry
C4_Witness ==
    /\ ret.op = "set_model"
    /\ ret.val = PyTrue
    /\ ret.had
    /\ \E i \in 1..Len(models) :
           /\ models[i].name = ret.name
           /\ models[i].model = PyNone
           /\ models[i].preprocess = PyNone
           /\ models[i].compare = StructuralEq

----------------------------------------------------------------------------
(* The benchmark run *)

\* C5: the scratch slot is empty once the harness is constructed, when the
\* compression phase of an image begins, from the reading of an artifact's
\* size to the next compression phase, and when a run has completed.
C5_SlotEmptyBetweenImages ==
    /\ ret.op = "__init__" => ~temp.exists
    /\ pc \in {"for_name", "for_image", "compress", "report", "plot", "returned"}
           => ~temp.exists


Mismatches == {i \in 1..Len(compared) : ~compared[i].equal}

\* the number of images benchmark(num_images) is to measure for each model
ToMeasure ==
    IF num_images <= 0 THEN 0
    ELSE IF num_images < Len(dataset) THEN num_images ELSE Len(dataset)

\* C6: as long as every compare call of the run has returned true, lossy_flag
\* is false and no warning was given.
C6_LosslessNoWarning ==
    (pc # "idle" /\ Mismatches = {}) => (lossy_flag = FALSE /\ warned = <<>>)

\* a run of two models over two images has completed without a mismatch
C6_Witness ==
    /\ pc = "returned"
    /\ Len(models) = 2
    /\ Len(compared) = 4
    /\ Mismatches = {}

\* C7 as claimed: every model of the run with a mismatch has had exactly one
\* warning, given at its first mismatch, and lossy_flag is set.
C7_OncePerModel ==
    \A i \in Mismatches :
        /\ lossy_flag = TRUE
        /\ Cardinality({j \in 1..Len(warned) : warned[j].name = compared[i].name}) = 1
        /\ \A j \in 1..Len(warned) :
               warned[j].name = compared[i].name => warned[j].image <= compared[i].image

\* C7 as amended: the first mismatch of the run, over all its models, sets
\* lossy_flag and gives the one warning of the run, for the model and the
\* image of that mismatch; no later mismatch of any model gives one.
C7_OncePerRun ==
    Mismatches # {} =>
        LET first == CHOOSE i \in Mismatches : \A k \in Mismatches : i <= k
        IN /\ lossy_flag = TRUE
           /\ Len(warned) = 1
           /\ warned[1].name = compared[first].name
           /\ warned[1].image = compared[first].image

\* a run has completed in which every image of two models was a mismatch
C7_Witness ==
    /\ pc = "returned"
    /\ Len(models) = 2
    /\ Len(compared) = 4
    /\ Cardinality(Mismatches) = 4

\* the artifact the save hook wrote for image k of model `name` in this run
WrittenFor(name, k) ==
    CHOOSE w \in {written[i] : i \in 1..Len(written)} : w.name = name /\ w.image = k

\* whether the fraction `value` is 8 * B / N
IsRate(value, B, N) == value[1] * N = 8 * B * value[2]

\* C8: the bpsp recorded for an image is 8 * B / N, B the bytes the save hook
\* wrote for that image and N the element count H * W * C of the dataset
\* image at the same position, whether the image was a mismatch or not.
C8_BitsPerSubpixel ==
    /\ pc \in {"for_image", "compress", "decompress", "compare", "measure"} =>
           \A k \in 1..Len(bpsp) :
               IsRate(bpsp[k], WrittenFor(models[name_ix].name, k).bytes,
                      np_size(dataset[k]))
    /\ pc \in {"for_name", "for_image", "compress", "decompress", "compare",
               "measure", "report"} =>
           \A n \in DOMAIN all_bpsp : \A k \in 1..Len(all_bpsp[n]) :
               IsRate(all_bpsp[n][k], WrittenFor(n, k).bytes, np_size(dataset[k]))

\* a mismatched image of 4 elements whose artifact has 2 bytes has the rate 4
C8_Witness ==
    /\ pc = "report"
    /\ "a" \in DOMAIN all_bpsp
    /\ Len(all_bpsp["a"]) = 2
    /\ all_bpsp["a"][1] = <<4, 1>>
    /\ np_size(dataset[1]) = 4
    /\ WrittenFor("a", 1).bytes = 2
    /\ \E i \in Mismatches : compared[i].image = 1

\* C9: when the measurement of a run with num_images >= 0 is over, each
\* model has three lists of min(num_images, len(dataset)) values; while it
\* goes on, every image handled so far, a mismatch or not, has its row.
C9_RowPerImage ==
    /\ (num_images >= 0 /\ pc \in {"report", "plot", "returned"}) =>
           \A i \in 1..Len(models) :
               /\ models[i].name \in DOMAIN all_bpsp
               /\ Len(all_bpsp[models[i].name]) = ToMeasure
               /\ Len(all_throughput[models[i].name]) = ToMeasure
               /\ Len(all_dthroughput[models[i].name]) = ToMeasure
    /\ pc = "for_image" =>
           /\ Len(bpsp) = img_ix - 1
           /\ Len(compression_throughput) = img_ix - 1
           /\ Len(decompression_throughput) = img_ix - 1
           /\ Cardinality({i \in 1..Len(compared) :
                             compared[i].name = models[name_ix].name}) = img_ix - 1

\* a run of two models asked for fewer images than the dataset has, with a
\* mismatch after lossy_flag was set, has completed
C9_Witness ==
    /\ pc = "returned"
    /\ Len(models) = 2
    /\ num_images = 1
    /\ Len(dataset) = 2
    /\ Cardinality(Mismatches) = 2

\* C10: with a model registered and no image to measure, the loop that prints
\* the means is left by a ZeroDivisionError and nothing is printed.
C10_EmptyMeansRaise ==
    [][(pc = "report" /\ pc' # "report" /\ models # <<>>
            /\ (num_images = 0 \/ dataset = <<>>))
          => (pc' = "raised" /\ error' = "ZeroDivisionError" /\ printed' = <<>>)]_vars

\* benchmark(0) over a dataset that is not empty has raised ZeroDivisionError
C10_Witness ==
    /\ pc = "raised"
    /\ error = "ZeroDivisionError"
    /\ models # <<>>
    /\ num_images = 0
    /\ dataset # <<>>
    /\ printed = <<>>

----------------------------------------------------------------------------
(* Errors *)

\* the callables the codecs of Codecs are made of
CodecHooks == {codec[i] : codec \in Codecs, i \in 1..5} \ {PyNone}

\* the step leaves benchmark() with the error e: nothing is recorded, nothing
\* is printed
AbortsWith(e) ==
    /\ pc' = "raised"
    /\ error' = e
    /\ printed' = <<>>
    /\ UNCHANGED <<bpsp, compression_throughput, decompression_throughput,
                   all_bpsp, all_throughput, all_dthroughput, img_ix, name_ix>>

\* C11: a step of benchmark() in which a hook of the codec raises (preprocess
\* over the dataset, the model or save hook, the load hook, preprocess of the
\* loaded image, compare) leaves the run with that hook's error; from there
\* the call only returns, no image or model is measured and no line printed.
C11_HookRaiseAborts ==
    /\ [][/\ (pc = "for_name" /\ pc' = "raised"
                 /\ \E fail_at \in 1..MaxImages : ForName(fail_at))
                => AbortsWith(models[name_ix].preprocess)
          /\ (pc = "compress" /\ Compress(1, 2, "model_raises"))
                => AbortsWith(models[name_ix].model)
          /\ (pc = "compress"
                 /\ \E outcome \in {"save_raises", "save_raises_after_write"} :
                        Compress(1, 2, outcome))
                => AbortsWith(models[name_ix].save)
          /\ (pc = "decompress" /\ \E same \in BOOLEAN :
                                       Decompress(1, 1, same, "load_raises"))
                => AbortsWith(models[name_ix].load)
          /\ (pc = "decompress" /\ \E same \in BOOLEAN :
                                       Decompress(1, 1, same, "preprocess_raises"))
                => AbortsWith(models[name_ix].preprocess)
          /\ (pc = "compare" /\ Compare("raises", "none"))
                => AbortsWith(models[name_ix].compare)
          /\ pc = "raised"
                => \/ pc' = "idle"
                   \/ UNCHANGED <<pc, localVars, historyVars, harnessVars,
                                  registryVars>>]_vars
    /\ []((pc = "raised" /\ error \in CodecHooks) => printed = <<>>)

\* the load hook of the second model has raised after the first model was
\* measured over two images
C11_Witness ==
    /\ pc = "raised"
    /\ Len(models) = 2
    /\ name_ix = 2
    /\ error = models[2].load
    /\ Len(all_bpsp[models[1].name]) = 2
    /\ printed = <<>>

\* C12: a first mismatch whose display fails (a thread that cannot be made or
\* started, a show() that raises) or succeeds sets lossy_flag and raises
\* nothing; the measurement that follows appends the image's three values
\* and goes on to the next image.
C12_DisplayFailureSwallowed ==
    [][/\ (pc = "compare" /\ lossy_flag = FALSE
                /\ \E shown \in DisplayOutcomes : Compare("differ", shown))
             => (pc' = "measure" /\ lossy_flag' = TRUE /\ error' = PyNone)
       /\ (pc = "measure" /\ pc' # "measure" /\ warned # <<>>
                /\ warned[Len(warned)].name = models[name_ix].name
                /\ warned[Len(warned)].image = img_ix)
             => /\ pc' = "for_image"
                /\ error' = PyNone
                /\ img_ix' = img_ix + 1
                /\ Len(bpsp') = Len(bpsp) + 1
                /\ Len(compression_throughput') = Len(compression_throughput) + 1
                /\ Len(decompression_throughput') =
                       Len(decompression_throughput) + 1]_vars

\* a run has completed in which the second display thread of the warning
\* could not be started, and both images of the model were measured
C12_Witness ==
    /\ pc = "returned"
    /\ Len(warned) = 1
    /\ warned[1].shown = "t2_fails"
    /\ warned[1].image = 1
    /\ Len(all_bpsp[warned[1].name]) = 2
    /\ Len(printed) = 3 * Len(models)

----------------------------------------------------------------------------
(* Throughput *)

\* whether the fraction `value` is (N * bits / (8 * 10^6)) / seconds, the
\* seconds being `ticks` ticks of the clock
IsThroughput(value, N, bits, ticks) ==
    value[1] * 8 * 10 ^ 6 * ticks = N * bits * TicksPerSecond * value[2]

\* C13: the throughputs appended for an image are (N * pixel_bits / (8 * 10^6))
\* divided by the seconds its compression and its decompression took, N being
\* self.lens of the image and pixel_bits 8 times the itemsize of the array
\* the load hook returned; taking twice the time gives half the throughput.
C13_Throughput ==
    /\ [][\A itemsize \in Itemsizes :
              (pc = "decompress"
                 /\ \E t \in Ticks, same \in BOOLEAN :
                        Decompress(t, itemsize, same, "ok"))
                => pixel_size' = 8 * itemsize]_vars
    /\ []((pc = "for_image" /\ img_ix > 1) =>
             /\ Len(compression_throughput) = img_ix - 1
             /\ Len(decompression_throughput) = img_ix - 1
             /\ IsThroughput(compression_throughput[img_ix - 1],
                             np_size(dataset[img_ix - 1]), pixel_size,
                             elapsed_time1)
             /\ IsThroughput(decompression_throughput[img_ix - 1],
                             np_size(dataset[img_ix - 1]), pixel_size,
                             elapsed_time2)
             /\ LET half == throughput(lens[img_ix - 1], pixel_size,
                                       2 * elapsed_time1)
                IN FracAdd(half, half) = compression_throughput[img_ix - 1])

\* an image of 4 elements of 2 bytes, compressed in 2 microseconds and
\* decompressed in 1, has the throughputs 4 MB/s and 8 MB/s
C13_Witness ==
    /\ pc = "for_image"
    /\ img_ix = 2
    /\ lens[1] = 4
    /\ pixel_size = 16
    /\ elapsed_time1 = 2
    /\ elapsed_time2 = 1
    /\ compression_throughput = <<<<4, 1>>>>
    /\ decompression_throughput = <<<<8, 1>>>>

----------------------------------------------------------------------------
(* lossy_flag *)

\* C14: lossy_flag is false when a run begins; within the run it only goes
\* from false to true, the loop over the models leaving it as it is; a
\* warning is given in the very steps in which it goes to true, so a run
\* gives one warning at most.
C14_FlagMonotone ==
    /\ [][/\ pc = "idle" => lossy_flag' = FALSE
          /\ (pc # "idle" /\ pc' # "idle") =>
                /\ lossy_flag = TRUE => lossy_flag' = TRUE
                /\ (lossy_flag = FALSE /\ lossy_flag' = TRUE)
                       <=> Len(warned') = Len(warned) + 1
                /\ Len(warned') \in {Len(warned), Len(warned) + 1}]_vars
    /\ [](Len(warned) <= 1)

\* the second model of a run had a mismatch after the warning was given for
\* the first model, and after an image of the second model that compared equal
C14_Witness ==
    /\ pc = "for_image"
    /\ name_ix = 2
    /\ lossy_flag = TRUE
    /\ Len(warned) = 1
    /\ warned[1].name = models[1].name
    /\ \E i, j \in 1..Len(compared) :
           /\ i < j
           /\ compared[i].name = models[2].name /\ compared[i].equal
           /\ compared[j].name = models[2].name /\ ~compared[j].equal

----------------------------------------------------------------------------
(* The display threads *)

\* C15: while benchmark() goes on after a warning, from the reading of the
\* artifact's size onwards, no display thread it started is still running
\* without having been joined.
C15_DisplayThreadsJoined ==
    (pc \in {"measure", "for_image", "for_name", "compress", "decompress",
             "compare", "report", "plot"} /\ warned # <<>>)
        => threads = {}

----------------------------------------------------------------------------
(* Validation *)

\* C16: every entry of the registry has the hooks benchmark() calls for it
\* (preprocess, save, load and compare; model may be absent), and benchmark()
\* is never left by the TypeError of calling a hook that is absent.
C16_AcceptedEntriesComplete ==
    /\ \A i \in 1..Len(models) :
           /\ Truthy(models[i].preprocess)
           /\ Truthy(models[i].save)
           /\ Truthy(models[i].load)
           /\ Truthy(models[i].compare)
    /\ pc = "raised" => error # "TypeError"

----------------------------------------------------------------------------
(* The registry's frame *)

\* the entry set_model stores for the call c
EntryOf(c) ==
    [name |-> c.name, model |-> c.model, preprocess |-> c.preprocess,
     save |-> c.save, load |-> c.load,
     compare |-> IF Truthy(c.compare) THEN c.compare ELSE StructuralEq]

\* C17: self.models changes only in a set_model call that returns True and in
\* a del_model call that returns True: no step of benchmark(), whether the
\* run completes or aborts, no get_model and no rejected set_model changes
\* the names, their order or a hook; the entries are at all times those the
\* accepted set_model calls stored.
C17_RegistryFrame ==
    /\ [][models' # models =>
              /\ pc = "idle"
              /\ pc' = "idle"
              /\ ret'.op \in {"set_model", "del_model"}
              /\ ret'.val = PyTrue]_vars
    /\ [](/\ Len(models) = Cardinality(registered)
          /\ \A i \in 1..Len(models) :
                 \E c \in registered : models[i] = EntryOf(c))

\* a run over two registered models has aborted
C17_Witness ==
    /\ pc = "raised"
    /\ ret.op = "benchmark"
    /\ Len(models) = 2
    /\ compared # <<>>

----------------------------------------------------------------------------
(* The images preprocessed *)

\* C18: the dataset positions passed to a preprocess hook in a run of
\* benchmark(num_images) are among the first min(num_images, len(dataset)),
\* so the run is not left by the error of a preprocess hook on a later image.
C18_PreprocessOnlyPrefix ==
    (pc # "idle" /\ num_images >= 0) => seen \subseteq 1..ToMeasure

====
